---- MODULE Spec2Model ----
(***************************************************************************)
(* Model of src/src/lib.rs: the simplex tableau (struct Table), its        *)
(* constructor Table::new and the two-phase driver Table::optimise with    *)
(* its helpers.                                                            *)
(*                                                                         *)
(* f64 values are modelled as IEEE-754 values without rounding: a finite   *)
(* value is an exact signed rational (zero keeps its sign bit), and the    *)
(* special values +inf, -inf and NaN (with its sign bit) follow the IEEE   *)
(* rules for *, /, -, < and the sign-bit tests.  Rounding and overflow to  *)
(* infinity of finite results are not modelled.                            *)
(*                                                                         *)
(* Vectors and matrices are 0-based, as in the source.                     *)
(***************************************************************************)
EXTENDS Integers, Sequences, FiniteSets, TLC

\* ------------------------------------------------------------------ bounds
MaxRows == 2
MaxCols == 3
MaxVal == 1
MaxCells == 5
MaxPivots == 4

VARIABLES
    constr_coeff,       \* argument of Table::new: the m x n constraint matrix
    constr_val,         \* argument of Table::new: the right-hand sides
    func_coeff,         \* argument of Table::new: the objective coefficients
    minimisation_task,  \* argument of Table::new
    nan_sign,           \* sign bit of a NaN the build's arithmetic generates
    table,              \* Table.table
    base_var,           \* Table.base_var (row labels)
    supp_var,           \* Table.supp_var (column labels)
    pc,                 \* "new", "phase1", "phase2", "done"
    result,             \* "None" while running, else the outcome
    start,              \* the Table as optimise() received it
    pre,                \* the Table before the last pivot
    pivots,             \* the pivot cells <<row, column>> transformed so far
    last                \* the operation that produced this state

vars == <<constr_coeff, constr_val, func_coeff, minimisation_task, nan_sign,
          table, base_var, supp_var, pc, result, start, pre, pivots, last>>

\* --------------------------------------------------------------- f64 model
RECURSIVE GCD(_, _)
GCD(a, b) == IF b = 0 THEN a ELSE GCD(b, a % b)

Abs(x) == IF x < 0 THEN -x ELSE x

\* a finite f64: sign bit s, magnitude n/d in lowest terms
Fin(s, n, d) ==
    LET g == GCD(n, d)
    IN  [k |-> "fin", s |-> s, n |-> n \div g, d |-> d \div g]

Inf(s) == [k |-> "inf", s |-> s, n |-> 1, d |-> 0]

NaN(s) == [k |-> "nan", s |-> s, n |-> 0, d |-> 0]

\* an integer literal such as 0f64, 1f64, -1f64
FromInt(i) == Fin(IF i < 0 THEN 1 ELSE 0, Abs(i), 1)

IsNaN(x) == x.k = "nan"

IsInf(x) == x.k = "inf"

IsFinite(x) == x.k = "fin"

IsZero(x) == x.k = "fin" /\ x.n = 0

\* f64::is_sign_positive / f64::is_sign_negative: the sign bit alone
is_sign_positive(x) == x.s = 0

is_sign_negative(x) == x.s = 1

\* unary minus flips the sign bit, of a NaN too
Neg(x) == [x EXCEPT !.s = 1 - x.s]

\* the NaN an invalid operation generates
GenNaN == NaN(nan_sign)

Xor(a, b) == (a + b) % 2

\* a * b
Mul(a, b) ==
    IF IsNaN(a) THEN a
    ELSE IF IsNaN(b) THEN b
    ELSE IF IsInf(a) \/ IsInf(b)
         THEN IF IsZero(a) \/ IsZero(b) THEN GenNaN ELSE Inf(Xor(a.s, b.s))
         ELSE Fin(Xor(a.s, b.s), a.n * b.n, a.d * b.d)

\* a / b
Div(a, b) ==
    IF IsNaN(a) THEN a
    ELSE IF IsNaN(b) THEN b
    ELSE IF IsInf(a)
         THEN IF IsInf(b) THEN GenNaN ELSE Inf(Xor(a.s, b.s))
    ELSE IF IsInf(b) THEN Fin(Xor(a.s, b.s), 0, 1)
    ELSE IF IsZero(b)
         THEN IF IsZero(a) THEN GenNaN ELSE Inf(Xor(a.s, b.s))
         ELSE Fin(Xor(a.s, b.s), a.n * b.d, a.d * b.n)

\* the signed numerator of a finite value
Num(x) == IF x.s = 1 THEN -x.n ELSE x.n

\* a - b
Sub(a, b) ==
    IF IsNaN(a) THEN a
    ELSE IF IsNaN(b) THEN b
    ELSE IF IsInf(a)
         THEN IF IsInf(b) /\ a.s = b.s THEN GenNaN ELSE a
    ELSE IF IsInf(b) THEN Neg(b)
    ELSE LET num == Num(a) * b.d - Num(b) * a.d
         IN  IF num = 0
             THEN Fin(IF a.s = 1 /\ b.s = 0 THEN 1 ELSE 0, 0, 1)
             ELSE Fin(IF num < 0 THEN 1 ELSE 0, Abs(num), a.d * b.d)

\* a < b (false when either is NaN; -0 and +0 compare equal)
Lt(a, b) ==
    IF IsNaN(a) \/ IsNaN(b) THEN FALSE
    ELSE IF IsInf(a) THEN a.s = 1 /\ ~(IsInf(b) /\ b.s = 1)
    ELSE IF IsInf(b) THEN b.s = 0
    ELSE Num(a) * b.d < Num(b) * a.d

\* a == b as f64 compares (false when either is NaN; -0 == +0)
Eq(a, b) == ~IsNaN(a) /\ ~IsNaN(b) /\ ~Lt(a, b) /\ ~Lt(b, a)

\* ------------------------------------------------------ vectors, matrices
None == -1

\* a Vec / Array1 of length len
Vec(len, f(_)) == [len |-> len, at |-> [i \in 0 .. len - 1 |-> f(i)]]

\* an Array2 with nrows rows and ncols columns
Array2(nrows, ncols, f(_, _)) ==
    [nrows |-> nrows, ncols |-> ncols,
     at |-> [i \in 0 .. nrows - 1 |-> [j \in 0 .. ncols - 1 |-> f(i, j)]]]

EmptyVec == [len |-> 0, at |-> [i \in {} |-> 0]]

EmptyTable == [nrows |-> 0, ncols |-> 0, at |-> [i \in {} |-> 0]]

MinOf(S) == CHOOSE x \in S : \A y \in S : x <= y

\* ------------------------------------------------------------- Table::new
\* lines 45-49: a minimisation task negates every objective coefficient
NegatedFunc(fc, minimisation) ==
    IF minimisation
    THEN Vec(fc.len, LAMBDA i : Mul(fc.at[i], FromInt(-1)))
    ELSE fc

\* line 50: constr_coeff.push_row(func_coeff); the Result is dropped, so a row
\* of the wrong length leaves the matrix as it was
PushRow(a, row) ==
    IF row.len = a.ncols
    THEN Array2(a.nrows + 1, a.ncols,
                LAMBDA i, j : IF i < a.nrows THEN a.at[i][j] ELSE row.at[j])
    ELSE a

\* lines 51-55: constr_val padded with zeros up to the row count
PadVal(cv, nrows) ==
    IF cv.len < nrows
    THEN Vec(nrows, LAMBDA i : IF i < cv.len THEN cv.at[i] ELSE FromInt(0))
    ELSE cv

\* lines 56-58: push_column(..).unwrap() succeeds only on a matching length
PushColumnOk(a, col) == col.len = a.nrows

PushColumn(a, col) ==
    Array2(a.nrows, a.ncols + 1,
           LAMBDA i, j : IF j < a.ncols THEN a.at[i][j] ELSE col.at[i])

\* lines 59-63: column labels "1" .. "n" and "S"
SuppVarInit(t) ==
    Vec(t.ncols, LAMBDA i : IF i < t.ncols - 1 THEN ToString(i + 1) ELSE "S")

\* lines 64-68: row labels continuing after the column count, and "F"
BaseVarInit(t) ==
    Vec(t.nrows,
        LAMBDA i : IF i < t.nrows - 1 THEN ToString(i + t.ncols) ELSE "F")

\* the matrix Table::new has built when it reaches line 59
NewTable(cc, cv, fc, minimisation) ==
    LET withRow == PushRow(cc, NegatedFunc(fc, minimisation))
    IN  PushColumn(withRow, PadVal(cv, withRow.nrows))

\* Table::new panics at the unwrap of line 58, or at `nrows() - 1` of line 65
\* when the matrix has no row (the release build wraps and exhausts memory)
NewPanics(cc, cv, fc, minimisation) ==
    LET withRow == PushRow(cc, NegatedFunc(fc, minimisation))
    IN  \/ ~PushColumnOk(withRow, PadVal(cv, withRow.nrows))
        \/ withRow.nrows = 0

Snapshot(t, b, s) == [table |-> t, base_var |-> b, supp_var |-> s]

NoSnapshot == Snapshot(EmptyTable, EmptyVec, EmptyVec)

New ==
    /\ pc = "new"
    /\ IF NewPanics(constr_coeff, constr_val, func_coeff, minimisation_task)
       THEN /\ pc' = "done"
            /\ result' = "Panic"
            /\ UNCHANGED <<table, base_var, supp_var, start>>
       ELSE LET t == NewTable(constr_coeff, constr_val, func_coeff,
                              minimisation_task)
            IN  /\ table' = t
                /\ base_var' = BaseVarInit(t)
                /\ supp_var' = SuppVarInit(t)
                /\ start' = Snapshot(t, BaseVarInit(t), SuppVarInit(t))
                /\ pc' = "phase1"
                /\ result' = "None"
    /\ last' = "new"
    /\ UNCHANGED <<constr_coeff, constr_val, func_coeff, minimisation_task,
                   nan_sign, pre, pivots>>

\* ---------------------------------------------------------------- helpers
\* check_optimised without the break at the free-term column
check_optimised_all(t) ==
    \A j \in 0 .. t.ncols - 1 : ~is_sign_positive(t.at[t.nrows - 1][j])

\* check_optimised comparing with 0.0 instead of testing the sign bit
check_optimised_cmp(t) ==
    \A j \in 0 .. t.ncols - 2 :
        ~(Lt(FromInt(0), t.at[t.nrows - 1][j])
          \/ Eq(t.at[t.nrows - 1][j], FromInt(0)))

\* lines 95-106
check_optimised(t) ==
    \A j \in 0 .. t.ncols - 2 : ~is_sign_positive(t.at[t.nrows - 1][j])

\* lines 108-119: the first constraint row whose free term is sign-negative
find_in_free_column(t) ==
    LET S == {i \in 0 .. t.nrows - 2 : is_sign_negative(t.at[i][t.ncols - 1])}
    IN  IF S = {} THEN None ELSE MinOf(S)

\* the scan of make_acceptable without the break at the free-term column
NegativeColumn_all(t, negative) ==
    LET S == {j \in 0 .. t.ncols - 1 : is_sign_negative(t.at[negative][j])}
    IN  IF S = {} THEN None ELSE MinOf(S)

\* lines 122-138: the first sign-negative coefficient of row `negative`
NegativeColumn(t, negative) ==
    LET S == {j \in 0 .. t.ncols - 2 : is_sign_negative(t.at[negative][j])}
    IN  IF S = {} THEN None ELSE MinOf(S)

\* lines 191-201: the loop of find_pivot_row from row i on, with the running
\* minimum min (meaningful when min_index is not None)
RECURSIVE PivotRowLoop(_, _, _, _, _)
PivotRowLoop(t, column, i, min, min_index) ==
    IF i >= t.nrows - 1 THEN min_index
    ELSE LET relation == Div(t.at[i][t.ncols - 1], t.at[i][column])
         IN  IF (min_index = None \/ Lt(relation, min))
                /\ is_sign_positive(relation)
             THEN PivotRowLoop(t, column, i + 1, relation, i)
             ELSE PivotRowLoop(t, column, i + 1, min, min_index)

\* lines 188-203
find_pivot_row(t, column) == PivotRowLoop(t, column, 0, FromInt(0), None)

\* lines 207-215: the first loop of transform from cell number c on, in row-major
\* order, updating the matrix in place
RECURSIVE TransformLoop(_, _, _, _, _)
TransformLoop(a, p, q, pivot_cpy, c) ==
    IF c >= a.nrows * a.ncols THEN a
    ELSE LET i == c \div a.ncols
             j == c % a.ncols
         IN  IF i = p \/ j = q
             THEN TransformLoop(a, p, q, pivot_cpy, c + 1)
             ELSE TransformLoop(
                    [a EXCEPT !.at[i][j] =
                        Sub(a.at[i][j],
                            Div(Mul(a.at[p][j], a.at[i][q]), pivot_cpy))],
                    p, q, pivot_cpy, c + 1)

\* lines 216-218: the pivot row divided by the pivot
DivideRow(a, p, pivot_cpy) ==
    Array2(a.nrows, a.ncols,
           LAMBDA i, j : IF i = p THEN Div(a.at[i][j], pivot_cpy)
                                  ELSE a.at[i][j])

\* lines 219-221: the pivot column divided by minus the pivot
DivideColumn(a, q, pivot_cpy) ==
    Array2(a.nrows, a.ncols,
           LAMBDA i, j : IF j = q THEN Div(a.at[i][j], Neg(pivot_cpy))
                                  ELSE a.at[i][j])

\* transform with the pivot row divided before the elimination loop, so that
\* the loop reads the updated row
transform_rowfirst(a, p, q) ==
    LET pivot_cpy == a.at[p][q]
        a1 == DivideRow(a, p, pivot_cpy)
        a2 == TransformLoop(a1, p, q, pivot_cpy, 0)
        a3 == DivideColumn(a2, q, pivot_cpy)
    IN  [a3 EXCEPT !.at[p][q] = Div(FromInt(1), pivot_cpy)]

\* transform with the pivot column divided by the pivot, not by its negation
transform_poscol(a, p, q) ==
    LET pivot_cpy == a.at[p][q]
        a1 == TransformLoop(a, p, q, pivot_cpy, 0)
        a2 == DivideRow(a1, p, pivot_cpy)
        a3 == Array2(a2.nrows, a2.ncols,
                     LAMBDA i, j : IF j = q THEN Div(a2.at[i][j], pivot_cpy)
                                            ELSE a2.at[i][j])
    IN  [a3 EXCEPT !.at[p][q] = Div(FromInt(1), pivot_cpy)]

\* lines 205-223
transform(a, p, q) ==
    LET pivot_cpy == a.at[p][q]
        a1 == TransformLoop(a, p, q, pivot_cpy, 0)
        a2 == DivideRow(a1, p, pivot_cpy)
        a3 == DivideColumn(a2, q, pivot_cpy)
    IN  [a3 EXCEPT !.at[p][q] = Div(FromInt(1), pivot_cpy)]

\* lines 142 and 153: std::mem::swap(&mut base_var[j], &mut supp_var[i]) for the
\* pivot (i, j); an index out of range panics
SwapPanics(b, s, i, j) == j >= b.len \/ i >= s.len

SwapBase(b, s, i, j) == [b EXCEPT !.at[j] = s.at[i]]

SwapSupp(b, s, i, j) == [s EXCEPT !.at[i] = b.at[j]]

\* lines 141-143 and 152-154: transform, then the label swap
Pivot(i, j) ==
    /\ table' = transform(table, i, j)
    /\ pre' = Snapshot(table, base_var, supp_var)
    /\ pivots' = Append(pivots, <<i, j>>)
    /\ IF SwapPanics(base_var, supp_var, i, j)
       THEN /\ UNCHANGED <<base_var, supp_var>>
            /\ pc' = "done"
            /\ result' = "Panic"
       ELSE /\ base_var' = SwapBase(base_var, supp_var, i, j)
            /\ supp_var' = SwapSupp(base_var, supp_var, i, j)
            /\ UNCHANGED <<pc, result>>

Fail(err) ==
    /\ pc' = "done"
    /\ result' = err
    /\ UNCHANGED <<table, base_var, supp_var, pre, pivots>>

\* --------------------------------------------------------- Table::optimise
\* lines 78-81: no sign-negative free term, phase 1 is over
Phase1Break ==
    /\ pc = "phase1"
    /\ find_in_free_column(table) = None
    /\ pc' = "phase2"
    /\ last' = "find_in_free_column"
    /\ UNCHANGED <<constr_coeff, constr_val, func_coeff, minimisation_task,
                   nan_sign, table, base_var, supp_var, result, start, pre,
                   pivots>>

\* lines 82-85 and 121-147
make_acceptable ==
    /\ pc = "phase1"
    /\ find_in_free_column(table) # None
    /\ Len(pivots) < MaxPivots
    /\ LET negative == find_in_free_column(table)
           j == NegativeColumn(table, negative)
       IN  IF j = None THEN Fail("NoSolutionsError")
           ELSE LET i == find_pivot_row(table, j)
                IN  IF i = None THEN Fail("UnableToCalculateError")
                    ELSE Pivot(i, j)
    /\ last' = "make_acceptable"
    /\ UNCHANGED <<constr_coeff, constr_val, func_coeff, minimisation_task,
                   nan_sign, start>>

\* lines 158-170: the first sign-positive entry of the objective row, the
\* free-term column included in the scan
PivotColumn(t) ==
    LET S == {j \in 0 .. t.ncols - 1 : is_sign_positive(t.at[t.nrows - 1][j])}
    IN  IF S = {} THEN None ELSE MinOf(S)

\* lines 171-177: some entry of column j, the objective row included, is
\* sign-positive
has_positive(t, j) == \E i \in 0 .. t.nrows - 1 : is_sign_positive(t.at[i][j])

\* lines 157-186: <<"Ok", i, j>> or <<error>>
find_pivot(t) ==
    LET j == PivotColumn(t)
    IN  IF j = None THEN <<"UnableToCalculateError">>
        ELSE IF ~has_positive(t, j) THEN <<"UnlimitedError">>
        ELSE LET i == find_pivot_row(t, j)
             IN  IF i = None THEN <<"UnlimitedError">> ELSE <<"Ok", i, j>>

\* lines 88-91 and 149-155
iterate ==
    /\ pc = "phase2"
    /\ ~check_optimised(table)
    /\ Len(pivots) < MaxPivots
    /\ LET r == find_pivot(table)
       IN  IF r[1] = "Ok" THEN Pivot(r[2], r[3]) ELSE Fail(r[1])
    /\ last' = "iterate"
    /\ UNCHANGED <<constr_coeff, constr_val, func_coeff, minimisation_task,
                   nan_sign, start>>

\* lines 88 and 92: the objective row passes check_optimised, Ok(())
ReturnOk ==
    /\ pc = "phase2"
    /\ check_optimised(table)
    /\ pc' = "done"
    /\ result' = "Ok"
    /\ last' = "check_optimised"
    /\ UNCHANGED <<constr_coeff, constr_val, func_coeff, minimisation_task,
                   nan_sign, table, base_var, supp_var, start, pre, pivots>>

\* ------------------------------------------------------------------ inputs
Vals == {FromInt(v) : v \in -MaxVal .. MaxVal}

VecsOf(len) == {[len |-> len, at |-> f] : f \in [0 .. len - 1 -> Vals]}

MatricesOf(m, n) ==
    {[nrows |-> m, ncols |-> n, at |-> f] :
        f \in [0 .. m - 1 -> [0 .. n - 1 -> Vals]]}

\* m x n constraints with mv right-hand sides and nf objective coefficients;
\* the lengths may disagree by one
Shapes ==
    {s \in (0 .. MaxRows) \X (0 .. MaxCols) \X (0 .. MaxRows + 1)
           \X (0 .. MaxCols + 1) :
        /\ s[1] * s[2] + s[3] + s[4] <= MaxCells
        /\ Abs(s[3] - s[1]) <= 1
        /\ Abs(s[4] - s[2]) <= 1}

IntVec(seq) == Vec(Len(seq), LAMBDA i : FromInt(seq[i + 1]))

IntMatrix(rows) ==
    Array2(Len(rows), Len(rows[1]), LAMBDA i, j : FromInt(rows[i + 1][j + 1]))

\* maximise 3x + 2y subject to x + y <= 4, x + 2y <= 5, with two slack columns
ExampleCoeff == IntMatrix(<<<<1, 1, 1, 0>>, <<1, 2, 0, 1>>>>)

ExampleVal == IntVec(<<4, 5>>)

ExampleFunc == IntVec(<<3, 2, 0, 0>>)

IsExample ==
    /\ constr_coeff = ExampleCoeff
    /\ constr_val = ExampleVal
    /\ func_coeff = ExampleFunc
    /\ minimisation_task = FALSE

Init ==
    /\ \/ \E s \in Shapes :
            /\ constr_coeff \in MatricesOf(s[1], s[2])
            /\ constr_val \in VecsOf(s[3])
            /\ func_coeff \in VecsOf(s[4])
            /\ minimisation_task \in BOOLEAN
       \/ IsExample
    /\ nan_sign \in {0, 1}
    /\ table = EmptyTable
    /\ base_var = EmptyVec
    /\ supp_var = EmptyVec
    /\ pc = "new"
    /\ result = "None"
    /\ start = NoSnapshot
    /\ pre = NoSnapshot
    /\ pivots = <<>>
    /\ last = "none"

Next == New \/ Phase1Break \/ make_acceptable \/ iterate \/ ReturnOk

Spec == Init /\ [][Next]_vars

\* ------------------------------------------------- transform on its own
\* any finite matrix of at most MaxCells cells
InitTransform ==
    /\ \E r \in 1 .. MaxCells, c \in 1 .. MaxCells :
          /\ r * c <= MaxCells
          /\ table \in MatricesOf(r, c)
    /\ start = Snapshot(table, EmptyVec, EmptyVec)
    /\ nan_sign \in {0, 1}
    /\ constr_coeff = EmptyTable
    /\ constr_val = EmptyVec
    /\ func_coeff = EmptyVec
    /\ minimisation_task = FALSE
    /\ base_var = EmptyVec
    /\ supp_var = EmptyVec
    /\ pc = "transform"
    /\ result = "None"
    /\ pre = NoSnapshot
    /\ pivots = <<>>
    /\ last = "none"

\* transform((p, q)) on a cell with a non-zero value, then once more on the
\* same cell
TransformAt ==
    /\ pc = "transform"
    /\ Len(pivots) < 2
    /\ \E p \in 0 .. table.nrows - 1, q \in 0 .. table.ncols - 1 :
          /\ pivots # <<>> => <<p, q>> = pivots[1]
          /\ ~IsZero(table.at[p][q])
          /\ table' = transform(table, p, q)
          /\ pivots' = Append(pivots, <<p, q>>)
    /\ pre' = Snapshot(table, base_var, supp_var)
    /\ last' = "transform"
    /\ UNCHANGED <<constr_coeff, constr_val, func_coeff, minimisation_task,
                   nan_sign, base_var, supp_var, pc, result, start>>

NextTransform == TransformAt

SpecTransform == InitTransform /\ [][NextTransform]_vars

\* ------------------------------------------------- vocabulary of the claims
Zero == FromInt(0)

\* numeric comparisons with zero, as f64 compares (a NaN satisfies none)
Positive(x) == Lt(Zero, x)

NonPositive(x) == Lt(x, Zero) \/ Eq(x, Zero)

\* the constraint rows and the variable columns of a tableau
Rows(t) == 0 .. t.nrows - 2

Cols(t) == 0 .. t.ncols - 2

FreeTerm(t, i) == t.at[i][t.ncols - 1]

ObjectiveCell(t) == t.at[t.nrows - 1][t.ncols - 1]

Objective(t, j) == t.at[t.nrows - 1][j]

AllFinite(t) ==
    \A i \in 0 .. t.nrows - 1, j \in 0 .. t.ncols - 1 : IsFinite(t.at[i][j])

\* the argument shapes agree
WellFormed ==
    /\ constr_val.len = constr_coeff.nrows
    /\ func_coeff.len = constr_coeff.ncols

\* Table::new has returned a Table
Constructed == pc # "new" /\ ~(last = "new" /\ result = "Panic")

LastPivot == pivots[Len(pivots)]

\* the last operation transformed the matrix
Pivoted ==
    /\ last \in {"make_acceptable", "iterate"}
    /\ result \in {"None", "Panic"}
    /\ pivots # <<>>

\* ----------------------------------------------------------------- claims

\* C1: whenever optimise() returns Ok(()), every objective-row coefficient in
\* columns 0..n-1 is non-positive.
C1_ObjectiveRowNonPositive ==
    (pc = "done" /\ result = "Ok")
        => \A j \in Cols(table) : NonPositive(Objective(table, j))

\* C2: a pivot at (p, q) exchanges the row label at index p with the column
\* label at index q, leaves every other label unchanged, and the label
\* sequences keep the lengths of the matrix's row and column counts.
C2_PivotSwapsLabels ==
    Pivoted =>
        LET p == LastPivot[1]
            q == LastPivot[2]
        IN  /\ base_var.len = table.nrows
            /\ supp_var.len = table.ncols
            /\ base_var.at = [i \in 0 .. pre.base_var.len - 1 |->
                                IF i = p THEN pre.supp_var.at[q]
                                         ELSE pre.base_var.at[i]]
            /\ supp_var.at = [j \in 0 .. pre.supp_var.len - 1 |->
                                IF j = q THEN pre.base_var.at[p]
                                         ELSE pre.supp_var.at[j]]

\* the constraint row labelled `label` holds the value v in its free term
BasicValue(label, v) ==
    \E i \in Rows(table) :
        base_var.at[i] = label /\ Eq(FreeTerm(table, i), FromInt(v))

C4_InvalidShapesRejected ==
    (pc # "new" /\ ~WellFormed)
        => /\ result = "InvalidDataError"
           /\ table = EmptyTable
           /\ pivots = <<>>

\* the first constraint row whose free term has its sign bit set
FirstNegativeRow(t) ==
    IF \E i \in Rows(t) : FreeTerm(t, i).s = 1
    THEN CHOOSE i \in Rows(t) :
            /\ FreeTerm(t, i).s = 1
            /\ \A k \in Rows(t) : FreeTerm(t, k).s = 1 => i <= k
    ELSE None

\* the one-variable problem with the constraint x <= -1
IsInfeasibleExample ==
    /\ constr_coeff = IntMatrix(<<<<1>>>>)
    /\ constr_val = IntVec(<<-1>>)
    /\ func_coeff.len = 1

\* C5: in phase 1, when the first constraint row with a negative free term has
\* no negative coefficient in columns 0..n-1, optimise() returns
\* NoSolutionsError without pivoting; the problem x <= -1 ends that way.
C5_InfeasibleRow ==
    /\ [][(/\ pc = "phase1"
           /\ FirstNegativeRow(table) # None
           /\ \A j \in Cols(table) :
                 table.at[FirstNegativeRow(table)][j].s = 0)
          => /\ pc' = "done"
             /\ result' = "NoSolutionsError"
             /\ table' = table
             /\ base_var' = base_var
             /\ supp_var' = supp_var
             /\ pivots' = pivots]_vars
    /\ []((IsInfeasibleExample /\ pc = "done")
            => (result = "NoSolutionsError" /\ pivots = <<>>))

C5_Witness ==
    /\ IsInfeasibleExample
    /\ pc = "done"
    /\ last = "make_acceptable"
    /\ result = "NoSolutionsError"

\* C6: in phase 2, whenever the chosen pivot column has no positive coefficient
\* in any constraint row, optimise() returns UnlimitedError and performs no
\* pivot.
C6_UnboundedColumn ==
    [][(/\ pc = "phase2"
        /\ ~check_optimised(table)
        /\ \A i \in Rows(table) : ~Positive(table.at[i][PivotColumn(table)]))
       => /\ result' = "UnlimitedError"
          /\ pivots' = pivots
          /\ table' = table]_vars

\* optimise() has been called and has left the Table as it received it
Untouched ==
    /\ pivots = <<>>
    /\ table = start.table
    /\ base_var = start.base_var
    /\ supp_var = start.supp_var
    /\ pc = "done" => result = "Ok"

\* C7 as stated: a tableau with no negative free term whose objective-row
\* coefficients are all non-positive, zero included, is returned Ok(()) with
\* no pivot, the matrix and both label sequences unchanged.
C7_AlreadyOptimalNoPivot ==
    (/\ Constructed
     /\ \A i \in Rows(start.table) : ~Lt(FreeTerm(start.table, i), Zero)
     /\ \A j \in Cols(start.table) : NonPositive(Objective(start.table, j)))
        => Untouched

\* the tableau optimise() received has no free term with the sign bit set and
\* no objective coefficient with the sign bit clear
SignOptimal ==
    /\ Constructed
    /\ \A i \in Rows(start.table) : FreeTerm(start.table, i).s = 0
    /\ \A j \in Cols(start.table) : Objective(start.table, j).s = 1

\* C7 as amended: a tableau with no sign-negative free term whose objective-row
\* coefficients all have the sign bit set (negative values and -0.0, but not
\* +0.0) is returned Ok(()) with no pivot, the matrix and both label sequences
\* unchanged.
C7_SignNegativeNoPivot == SignOptimal => Untouched

C7_Witness ==
    /\ SignOptimal
    /\ pc = "done"
    /\ last = "check_optimised"
    /\ result = "Ok"
    /\ start.table.nrows >= 2
    /\ \E j \in Cols(start.table) : IsZero(Objective(start.table, j))

\* the ratio of row i for the pivot column c
Ratio(t, c, i) == Div(FreeTerm(t, i), t.at[i][c])

\* the rows whose ratio is a non-negative number: sign bit clear, not a NaN
Eligible(t, c) ==
    {i \in Rows(t) : Ratio(t, c, i).s = 0 /\ ~IsNaN(Ratio(t, c, i))}

\* the contract of the ratio test on column c: it returns only a row whose ratio is
\* non-negative; when rows with a non-negative ratio exist it returns the one
\* with the smallest ratio, the lowest index among equal ratios; it returns no
\* row when no ratio has its sign bit clear.
RatioTestOk(t, c) ==
    LET r == find_pivot_row(t, c)
    IN  /\ r # None => r \in Rows(t) /\ Ratio(t, c, r).s = 0
        /\ (\A i \in Rows(t) : Ratio(t, c, i).s = 1) => r = None
        /\ Eligible(t, c) # {} =>
            /\ r \in Eligible(t, c)
            /\ \A i \in Eligible(t, c) :
                /\ ~Lt(Ratio(t, c, i), Ratio(t, c, r))
                /\ Eq(Ratio(t, c, i), Ratio(t, c, r)) => r <= i

\* C8: the ratio test keeps its contract on every column of every tableau
\* optimise() works on.
C8_RatioTest ==
    (Constructed /\ pc # "done") => \A c \in Cols(table) : RatioTestOk(table, c)

\* the pivot transform in closed form, from the values before the transform
ClosedForm(a, p, q) ==
    LET v == a.at[p][q]
    IN  Array2(a.nrows, a.ncols,
               LAMBDA i, j :
                 IF i = p /\ j = q THEN Div(FromInt(1), v)
                 ELSE IF i = p THEN Div(a.at[p][j], v)
                 ELSE IF j = q THEN Neg(Div(a.at[i][q], v))
                 ELSE Sub(a.at[i][j], Div(Mul(a.at[p][j], a.at[i][q]), v)))

\* the same shape and, cell by cell, equal values as f64 compares
SameValues(a, b) ==
    /\ a.nrows = b.nrows
    /\ a.ncols = b.ncols
    /\ \A i \in 0 .. a.nrows - 1, j \in 0 .. a.ncols - 1 :
          Eq(a.at[i][j], b.at[i][j])

C10_PivotColumnNotFree ==
    /\ (pc = "phase2" /\ ~check_optimised(table)) =>
          /\ PivotColumn(table) \in Cols(table)
          /\ find_pivot(table)[1] # "UnableToCalculateError"
    /\ last = "iterate" =>
          /\ result # "UnableToCalculateError"
          /\ Pivoted => LastPivot[2] \in Cols(table)

C10_Witness ==
    /\ last = "iterate"
    /\ Pivoted
    /\ AllFinite(table)
    /\ ObjectiveCell(pre.table).s = 0
    /\ LastPivot[2] \in Cols(table)

====
